---- MODULE Spec2Model ----
(***************************************************************************)
(* A model of the markov module of src/lib.rs: a second-order Markov text  *)
(* generator.  A string is a sequence of one-character strings, a word is  *)
(* a string without whitespace, the model state is the Markov struct.      *)
(***************************************************************************)
EXTENDS Integers, Sequences, FiniteSets, TLC

VARIABLES seeds, chains, case, filters, transform, last, pre, corpus

vars == <<seeds, chains, case, filters, transform, last, pre, corpus>>

(***************************************************************************)
(* Bounds of the exploration.                                              *)
(***************************************************************************)
MaxWords == 6
MaxFilters == 1
MaxWalk == 5
MaxLength == 4

(***************************************************************************)
(* Characters.                                                             *)
(***************************************************************************)
Whitespace == {" ", "\t", "\n"}
Letters == {"a", "A", "b", "B"}
KeptByNonAlnum == Letters \cup Whitespace \cup {":"}

\* char::to_lowercase / to_uppercase on the characters of the model
LowerChar(c) == CASE c = "A" -> "a" [] c = "B" -> "b" [] OTHER -> c
UpperChar(c) == CASE c = "a" -> "A" [] c = "b" -> "B" [] OTHER -> c

to_lowercase(w) == [i \in 1..Len(w) |-> LowerChar(w[i])]
to_uppercase(w) == [i \in 1..Len(w) |-> UpperChar(w[i])]

(***************************************************************************)
(* words: str::split_whitespace, the maximal runs of non-whitespace.       *)
(***************************************************************************)
RECURSIVE SplitWhitespace(_, _, _)
SplitWhitespace(s, cur, acc) ==
    IF s = <<>> THEN (IF cur = <<>> THEN acc ELSE Append(acc, cur))
    ELSE IF Head(s) \in Whitespace
         THEN SplitWhitespace(Tail(s), <<>>, IF cur = <<>> THEN acc ELSE Append(acc, cur))
         ELSE SplitWhitespace(Tail(s), Append(cur, Head(s)), acc)

words(sentence) == SplitWhitespace(sentence, <<>>, <<>>)

(***************************************************************************)
(* Regexes.  A filter is either a negated character class (the shape of    *)
(* non_alphanumeric_regex) or a literal pattern built by regex(s).         *)
(***************************************************************************)
non_alphanumeric_regex == [kind |-> "class", keep |-> KeptByNonAlnum, pat |-> <<>>]
regex(s) == [kind |-> "lit", keep |-> {}, pat |-> s]

IsPrefix(p, w) == Len(p) <= Len(w) /\ SubSeq(w, 1, Len(p)) = p

\* Regex::replace_all(w, ""): leftmost non-overlapping matches are deleted
RECURSIVE DeleteLiteral(_, _)
DeleteLiteral(p, w) ==
    IF w = <<>> THEN <<>>
    ELSE IF IsPrefix(p, w) THEN DeleteLiteral(p, SubSeq(w, Len(p) + 1, Len(w)))
         ELSE <<Head(w)>> \o DeleteLiteral(p, Tail(w))

replace_all(re, w) ==
    IF re.kind = "class" THEN SelectSeq(w, LAMBDA c : c \in re.keep)
    ELSE DeleteLiteral(re.pat, w)

RECURSIVE ApplyFilters(_, _)
ApplyFilters(fs, ws) ==
    IF fs = <<>> THEN ws
    ELSE ApplyFilters(Tail(fs), [i \in 1..Len(ws) |-> replace_all(Head(fs), ws[i])])

(***************************************************************************)
(* The transform closure: None, or a pure function of one word.            *)
(***************************************************************************)
None == [some |-> FALSE, val |-> <<>>]
Some(v) == [some |-> TRUE, val |-> v]
Suffix == <<"?", "B">>
CallTransform(f, w) == IF f = "suffix" THEN w \o Suffix ELSE w

ApplyTransform(f, ws) ==
    IF f.some THEN [i \in 1..Len(ws) |-> CallTransform(f.val, ws[i])] ELSE ws

ApplyCase(c, ws) ==
    IF c = "Lower" THEN [i \in 1..Len(ws) |-> to_lowercase(ws[i])]
    ELSE IF c = "Upper" THEN [i \in 1..Len(ws) |-> to_uppercase(ws[i])]
    ELSE ws

\* the order the doc comment of pass_str gives: transform, filters, casing
Normalize_TransformFirst(sentence, fs, f, c) ==
    ApplyCase(c, ApplyFilters(fs, ApplyTransform(f, words(sentence))))

\* the word list of pass_str after its three normalization loops
Normalize(sentence, fs, f, c) ==
    ApplyCase(c, ApplyTransform(f, ApplyFilters(fs, words(sentence))))

(***************************************************************************)
(* The chain table: a vector of (word, word, successors).                  *)
(***************************************************************************)
has_chain(ch, s1, s2) == \E i \in 1..Len(ch) : ch[i][1] = s1 /\ ch[i][2] = s2

add_to_chain(ch, s1, s2, word) ==
    [i \in 1..Len(ch) |->
        IF ch[i][1] = s1 /\ ch[i][2] = s2
        THEN <<ch[i][1], ch[i][2], Append(ch[i][3], word)>>
        ELSE ch[i]]

\* add without the has_chain test
add_AlwaysPush(ch, s1, s2, next) == Append(ch, <<s1, s2, <<next>>>>)

add(ch, s1, s2, next) ==
    IF has_chain(ch, s1, s2) THEN add_to_chain(ch, s1, s2, next)
    ELSE Append(ch, <<s1, s2, <<next>>>>)

\* the loop stopping one window early
RECURSIVE AddWindows_SkipLast(_, _, _)
AddWindows_SkipLast(ch, ws, i) ==
    IF i > Len(ws) - 3 THEN ch
    ELSE AddWindows_SkipLast(add(ch, ws[i], ws[i + 1], ws[i + 2]), ws, i + 1)

\* for i in 0..words.len()-2 { self.add(&words[i], &words[i+1], &words[i+2]) }
\* (i is the 1-based start of the window)
RECURSIVE AddWindows(_, _, _)
AddWindows(ch, ws, i) ==
    IF i > Len(ws) - 2 THEN ch
    ELSE AddWindows(add(ch, ws[i], ws[i + 1], ws[i + 2]), ws, i + 1)

Snapshot == [seeds |-> seeds, chains |-> chains, case |-> case,
             filters |-> filters, transform |-> transform]

(***************************************************************************)
(* Inputs.                                                                 *)
(***************************************************************************)
RawWords == {<<"A", "?">>, <<"?">>}

RECURSIVE Join(_, _)
Join(ws, sep) ==
    IF ws = <<>> THEN <<>>
    ELSE IF Len(ws) = 1 THEN ws[1]
    ELSE ws[1] \o sep \o Join(Tail(ws), sep)

WordLists == UNION {[1..n -> RawWords] : n \in 0..MaxWords}

\* sentences: words separated by one space, and for the short ones also
\* with leading, trailing and repeated whitespace
Sentences ==
    {Join(ws, <<" ">>) : ws \in WordLists}
    \cup {<<" ">> \o Join(ws, <<"\t", " ">>) \o <<"\n">> : ws \in {w \in WordLists : Len(w) <= 2}}

Regexes == {non_alphanumeric_regex}

(***************************************************************************)
(* Return values, as the caller sees them.  Running: the call is still in  *)
(* its loop after MaxWalk iterations; Panic: the call aborted.             *)
(***************************************************************************)
RetUnit == [kind |-> "Unit", bool |-> FALSE, words |-> <<>>, text |-> <<>>]
RetBool(b) == [kind |-> "Bool", bool |-> b, words |-> <<>>, text |-> <<>>]
RetNone == [kind |-> "None", bool |-> FALSE, words |-> <<>>, text |-> <<>>]
RetSome(ws) == [kind |-> "Some", bool |-> FALSE, words |-> ws, text |-> Join(ws, <<" ">>)]
RetPanic == [kind |-> "Panic", bool |-> FALSE, words |-> <<>>, text |-> <<>>]
RetRunning(ws) == [kind |-> "Running", bool |-> FALSE, words |-> ws, text |-> <<>>]

(***************************************************************************)
(* pass_str on a model value: the new seeds and chains and the result.     *)
(***************************************************************************)
\* the seed recorded before the length test, from the words there are
pass_str_EagerSeed(sd, ch, fs, f, c, sentence) ==
    LET ws == Normalize(sentence, fs, f, c) IN
    IF Len(ws) < 2
    THEN [seeds |-> IF Len(ws) = 1 THEN Append(sd, <<ws[1], <<>>>>) ELSE sd,
          chains |-> ch, ret |-> FALSE]
    ELSE [seeds |-> Append(sd, <<ws[1], ws[2]>>),
          chains |-> AddWindows(ch, ws, 1),
          ret |-> TRUE]

pass_str(sd, ch, fs, f, c, sentence) ==
    LET ws == Normalize(sentence, fs, f, c) IN
    IF Len(ws) < 2
    THEN [seeds |-> sd, chains |-> ch, ret |-> FALSE]
    ELSE [seeds |-> Append(sd, <<ws[1], ws[2]>>),
          chains |-> AddWindows(ch, ws, 1),
          ret |-> TRUE]

\* for x in sentences { self.pass_str(x); }
RECURSIVE pass(_, _, _, _, _, _)
pass(sd, ch, fs, f, c, sentences) ==
    IF sentences = <<>> THEN [seeds |-> sd, chains |-> ch]
    ELSE LET r == pass_str(sd, ch, fs, f, c, Head(sentences)) IN
         pass(r.seeds, r.chains, fs, f, c, Tail(sentences))

(***************************************************************************)
(* next and generate.  random::<usize>() % n is any index below n.         *)
(***************************************************************************)
Matches(ch, s1, s2) == {i \in 1..Len(ch) : ch[i][1] = s1 /\ ch[i][2] = s2}

FirstMatch(ch, s1, s2) ==
    CHOOSE i \in Matches(ch, s1, s2) : \A j \in Matches(ch, s1, s2) : i <= j

\* next comparing the context the wrong way round
next_Swapped(ch, s1, s2) ==
    IF Matches(ch, s2, s1) = {} THEN {None}
    ELSE LET v3 == ch[FirstMatch(ch, s2, s1)][3] IN
         {Some(v3[k]) : k \in 1..Len(v3)}

\* next comparing the second word only
next_SecondOnly(ch, s1, s2) ==
    LET hits == {i \in 1..Len(ch) : ch[i][2] = s2} IN
    IF hits = {} THEN {None}
    ELSE LET v3 == ch[CHOOSE i \in hits : \A j \in hits : i <= j][3] IN
         {Some(v3[k]) : k \in 1..Len(v3)}

next(ch, s1, s2) ==
    IF Matches(ch, s1, s2) = {} THEN {None}
    ELSE LET v3 == ch[FirstMatch(ch, s1, s2)][3] IN
         {Some(v3[k]) : k \in 1..Len(v3)}

I32Min == -2147483647 - 1

\* length - 2 leaves the i32 range
Overflows(length) == length < I32Min + 2

\* The loop  for i in 0..(length-2) as usize  from iteration i on, where d is
\* length-2 when that is not negative.  A negative length-2 is cast to
\* 2^64 + (length-2), and an overflowed one (release build) to about 2^31:
\* both are written d = -1 and exceed every iteration count below MaxWalk.
\* the loop over the inclusive range 0..=(length-2)
RECURSIVE Walk_OneMore(_, _, _, _)
Walk_OneMore(ch, ws, i, d) ==
    IF d >= 0 /\ i > d THEN {RetSome(ws)}
    ELSE IF i >= MaxWalk THEN {RetRunning(ws)}
    ELSE UNION {IF o.some THEN Walk_OneMore(ch, Append(ws, o.val), i + 1, d)
                ELSE {RetSome(ws)} : o \in next(ch, ws[i + 1], ws[i + 2])}

RECURSIVE Walk(_, _, _, _)
Walk(ch, ws, i, d) ==
    IF d >= 0 /\ i >= d THEN {RetSome(ws)}
    ELSE IF i >= MaxWalk THEN {RetRunning(ws)}
    ELSE UNION {IF o.some THEN Walk(ch, Append(ws, o.val), i + 1, d)
                ELSE {RetSome(ws)} : o \in next(ch, ws[i + 1], ws[i + 2])}

\* generate asking for more than one seed
generate_NeedsTwoSeeds(sd, ch, length) ==
    IF Len(sd) <= 1 THEN {RetNone}
    ELSE UNION {Walk(ch, <<sd[k][1], sd[k][2]>>, 0,
                     IF Overflows(length) THEN -1
                     ELSE IF length - 2 < 0 THEN -1 ELSE length - 2) : k \in 1..Len(sd)}

generate(sd, ch, length) ==
    IF Len(sd) = 0 THEN {RetNone}
    ELSE LET d == IF Overflows(length) THEN -1
                  ELSE IF length - 2 < 0 THEN -1 ELSE length - 2
             walks == UNION {Walk(ch, <<sd[k][1], sd[k][2]>>, 0, d) : k \in 1..Len(sd)}
         IN  IF Overflows(length) THEN {RetPanic} \cup walks ELSE walks

(***************************************************************************)
(* Operations.                                                             *)
(***************************************************************************)
GenLengths == {I32Min, 1, 2, MaxLength}

Batches ==
    UNION {[1..n -> {Join(ws, <<" ">>) : ws \in {w \in WordLists : Len(w) \in {1, 3}}}] : n \in {0, 2}}

\* the words the model holds: two per seed and one per recorded successor
RECURSIVE Successors(_)
Successors(ch) == IF ch = <<>> THEN 0 ELSE Len(Head(ch)[3]) + Successors(Tail(ch))

WordsHeld == 2 * Len(seeds) + Successors(chains)

RECURSIVE WordsIn(_)
WordsIn(sentences) ==
    IF sentences = <<>> THEN 0 ELSE Len(words(Head(sentences))) + WordsIn(Tail(sentences))

\* last and pre record the call just made and the model it was made on; a
\* call is made when the record of the one before it has been dropped
Idle == [op |-> "idle", arg |-> <<>>, ret |-> RetUnit]

Init ==
    /\ seeds = <<>>
    /\ chains = <<>>
    /\ case = "Any"
    /\ transform = None
    /\ filters = <<>>
    /\ last = Idle
    /\ pre = [seeds |-> <<>>, chains |-> <<>>, case |-> "Any",
              filters |-> <<>>, transform |-> None]
    /\ corpus = {}

AddFilter(re) ==
    /\ last = Idle
    /\ Len(filters) < MaxFilters
    /\ filters' = Append(filters, re)
    /\ last' = [op |-> "add_filter", arg |-> re, ret |-> RetUnit]
    /\ pre' = Snapshot
    /\ UNCHANGED <<seeds, chains, case, transform, corpus>>

\* m.case = LetterCase::Lower: the field is private, and the code that
\* assigns it does so on the model new() returned, before any sentence
SetCase(c) ==
    /\ last = Idle
    /\ case = "Any"
    /\ seeds = <<>>
    /\ case' = c
    /\ last' = [op |-> "set_case", arg |-> c, ret |-> RetUnit]
    /\ pre' = Snapshot
    /\ UNCHANGED <<seeds, chains, filters, transform, corpus>>

Ingested(cp, fs, f, c, sentence) ==
    IF Len(words(sentence)) >= 2 THEN cp \cup {Normalize(sentence, fs, f, c)} ELSE cp

RECURSIVE IngestedAll(_, _, _, _, _)
IngestedAll(cp, fs, f, c, sentences) ==
    IF sentences = <<>> THEN cp
    ELSE IngestedAll(Ingested(cp, fs, f, c, Head(sentences)), fs, f, c, Tail(sentences))

PassStr(sentence) ==
    LET r == pass_str(seeds, chains, filters, transform, case, sentence) IN
    /\ last = Idle
    /\ WordsHeld + Len(words(sentence)) <= MaxWords
    /\ seeds' = r.seeds
    /\ chains' = r.chains
    /\ last' = [op |-> "pass_str", arg |-> sentence, ret |-> RetBool(r.ret)]
    /\ pre' = Snapshot
    /\ corpus' = Ingested(corpus, filters, transform, case, sentence)
    /\ UNCHANGED <<case, filters, transform>>

Pass(sentences) ==
    LET r == pass(seeds, chains, filters, transform, case, sentences) IN
    /\ last = Idle
    /\ WordsHeld + WordsIn(sentences) <= MaxWords
    /\ seeds' = r.seeds
    /\ chains' = r.chains
    /\ last' = [op |-> "pass", arg |-> sentences, ret |-> RetUnit]
    /\ pre' = Snapshot
    /\ corpus' = IngestedAll(corpus, filters, transform, case, sentences)
    /\ UNCHANGED <<case, filters, transform>>

\* generate taking the seed it starts from out of the seed list
Generate_Draining(length) ==
    /\ last = Idle
    /\ \E out \in generate(seeds, chains, length) :
          last' = [op |-> "generate", arg |-> length, ret |-> out]
    /\ pre' = Snapshot
    /\ seeds' = IF seeds = <<>> THEN seeds ELSE Tail(seeds)
    /\ UNCHANGED <<chains, case, filters, transform, corpus>>

Generate(length) ==
    /\ last = Idle
    /\ \E out \in generate(seeds, chains, length) :
          last' = [op |-> "generate", arg |-> length, ret |-> out]
    /\ pre' = Snapshot
    /\ UNCHANGED <<seeds, chains, case, filters, transform, corpus>>

Return ==
    /\ last # Idle
    /\ last' = Idle
    /\ pre' = Snapshot
    /\ UNCHANGED <<seeds, chains, case, filters, transform, corpus>>

Next ==
    \/ \E re \in Regexes : AddFilter(re)
    \/ SetCase("Lower")
    \/ \E s \in Sentences : PassStr(s)
    \/ \E ss \in Batches : Pass(ss)
    \/ \E n \in GenLengths : Generate(n)
    \/ Return

Spec == Init /\ [][Next]_vars

(***************************************************************************)
(* The normalization pipeline on its own: a model built with any casing,   *)
(* any transform and any list of filters takes one sentence.               *)
(***************************************************************************)
MaxNormFilters == 2
Cases == {"Any", "Lower", "Upper"}
Transforms == {None, Some("suffix")}
NormRegexes == {non_alphanumeric_regex, regex(<<"A", "B">>)}
NormWords == {<<"A">>, <<"A", "?", "B">>, <<"?">>}

NormSentences ==
    {Join(ws, <<" ">>) : ws \in UNION {[1..n -> NormWords] : n \in 1..3}}

InitNorm ==
    /\ seeds = <<>>
    /\ chains = <<>>
    /\ case \in Cases
    /\ transform \in Transforms
    /\ filters \in UNION {[1..n -> NormRegexes] : n \in 0..MaxNormFilters}
    /\ last = Idle
    /\ pre = Snapshot
    /\ corpus = {}

NextNorm ==
    \/ \E s \in NormSentences : seeds = <<>> /\ PassStr(s)
    \/ Return

SpecNorm == InitNorm /\ [][NextNorm]_vars

(***************************************************************************)
(* Vocabulary of the properties.                                           *)
(***************************************************************************)
\* the words of a generated sentence: the fields between its single spaces
RECURSIVE SplitSpaces(_, _, _)
SplitSpaces(s, cur, acc) ==
    IF s = <<>> THEN Append(acc, cur)
    ELSE IF Head(s) = " " THEN SplitSpaces(Tail(s), <<>>, Append(acc, cur))
         ELSE SplitSpaces(Tail(s), Append(cur, Head(s)), acc)

Fields(text) == SplitSpaces(text, <<>>, <<>>)

\* the normalized words of the sentence of the last pass_str call
PassedWords == Normalize(last.arg, pre.filters, pre.transform, pre.case)

PassStrCalled == last.op = "pass_str"
Generated == last.op = "generate" /\ last.ret.kind = "Some"

\* append_successor of the chain table, on a table value
AppendSuccessor(tbl, a, b, tok) ==
    IF \E i \in 1..Len(tbl) : <<tbl[i][1], tbl[i][2]>> = <<a, b>>
    THEN LET i == CHOOSE k \in 1..Len(tbl) : <<tbl[k][1], tbl[k][2]>> = <<a, b>>
         IN  [tbl EXCEPT ![i] = <<a, b, tbl[i][3] \o <<tok>>>>]
    ELSE tbl \o <<<<a, b, <<tok>>>>>>

RECURSIVE AppendAll(_, _, _)
AppendAll(tbl, t, i) ==
    IF i + 2 > Len(t) THEN tbl
    ELSE AppendAll(AppendSuccessor(tbl, t[i], t[i + 1], t[i + 2]), t, i + 1)

Extends(old, new) ==
    /\ Len(old) <= Len(new)
    /\ \A i \in 1..Len(old) :
          /\ new[i][1] = old[i][1]
          /\ new[i][2] = old[i][2]
          /\ IsPrefix(old[i][3], new[i][3])

EntriesFor(tbl, a, b) == {i \in 1..Len(tbl) : tbl[i][1] = a /\ tbl[i][2] = b}

SeedSet == {seeds[i] : i \in 1..Len(seeds)}

\* C1: a pass_str call whose sentence has fewer than two normalized words
\* returns false and leaves the seeds and the chains as they were.
C1_RejectedLeavesModel ==
    (PassStrCalled /\ Len(PassedWords) < 2) =>
        /\ last.ret = RetBool(FALSE)
        /\ seeds = pre.seeds
        /\ chains = pre.chains

C1_Witness ==
    /\ PassStrCalled
    /\ Len(PassedWords) = 1
    /\ last.ret = RetBool(FALSE)
    /\ pre.seeds # <<>>
    /\ pre.chains # <<>>

\* C2: a pass_str call whose sentence has n >= 2 normalized words t returns
\* true, appends the one seed (t[0], t[1]) at the end of the seed list, and
\* turns the chain table into the old one after append_successor of every
\* window (t[i], t[i+1]) -> t[i+2] in increasing order; no entry or
\* successor of the old table is removed or changed.
C2_AcceptedAppends ==
    (PassStrCalled /\ Len(PassedWords) >= 2) =>
        /\ last.ret = RetBool(TRUE)
        /\ seeds = pre.seeds \o <<<<PassedWords[1], PassedWords[2]>>>>
        /\ chains = AppendAll(pre.chains, PassedWords, 1)
        /\ Extends(pre.chains, chains)

C2_Witness ==
    /\ PassStrCalled
    /\ Len(PassedWords) >= 3
    /\ last.ret = RetBool(TRUE)
    /\ pre.seeds # <<>>
    /\ \E i \in 1..Len(pre.chains) : Len(chains[i][3]) > Len(pre.chains[i][3])

C4_NeverLongerThanLength ==
    Generated => Len(Fields(last.ret.text)) <= last.arg

\* C5: generate returns None exactly when the seed list is empty, and the
\* seed list is empty exactly when no sentence of two or more words has
\* been passed.
C5_NoneIffNoSeeds ==
    /\ (seeds = <<>>) <=> (corpus = {})
    /\ last.op = "generate" => ((last.ret = RetNone) <=> (seeds = <<>>))

C5_Witness ==
    /\ last.op = "generate"
    /\ last.ret = RetNone
    /\ filters # <<>>
    /\ case = "Lower"

\* C6: generate leaves the seeds, the chains and the normalization
\* configuration as they were, whatever it returns.
C6_GenerateReadsOnly ==
    last.op = "generate" => Snapshot = pre

C6_Witness ==
    /\ Generated
    /\ Len(last.ret.words) > 2
    /\ Len(seeds) >= 2
    /\ filters # <<>>

\* C7: on a model that holds exactly one sentence, whose normalized words
\* t[0..n-1] have pairwise distinct adjacent pairs, generate(L) with L >= n
\* returns exactly the words of t joined by single spaces.
OneSentence(t) ==
    /\ Len(seeds) = 1
    /\ corpus = {t}
    /\ \A i, j \in 1..(Len(t) - 1) : i # j => <<t[i], t[i + 1]>> # <<t[j], t[j + 1]>>

C7_SingleSentenceReplayed ==
    \A t \in corpus :
        (last.op = "generate" /\ OneSentence(t) /\ last.arg >= Len(t)) =>
            /\ last.ret.kind = "Some"
            /\ last.ret.text = Join(t, <<" ">>)

C7_Witness ==
    \E t \in corpus :
        /\ Generated
        /\ OneSentence(t)
        /\ Len(t) = 4
        /\ last.arg = MaxLength
        /\ last.ret.text = Join(t, <<" ">>)

\* C8: the chain table holds at most one entry per ordered context, (a, b)
\* and (b, a) being different contexts; a successor observed for a context
\* that has an entry is appended to that entry, and no call creates a
\* second entry or replaces earlier successors.
C8_OneEntryPerContext ==
    /\ \A i, j \in 1..Len(chains) :
          (chains[i][1] = chains[j][1] /\ chains[i][2] = chains[j][2]) => i = j
    /\ Extends(pre.chains, chains)
    /\ (PassStrCalled /\ last.ret.bool) =>
          \A i \in 1..(Len(PassedWords) - 2) :
             \E k \in 1..Len(chains) :
                /\ EntriesFor(chains, PassedWords[i], PassedWords[i + 1]) = {k}
                /\ \E m \in 1..Len(chains[k][3]) : chains[k][3][m] = PassedWords[i + 2]
                /\ EntriesFor(pre.chains, PassedWords[i], PassedWords[i + 1]) \subseteq {k}

\* a context seen twice, beside the entry of the same two words reversed
C8_Witness ==
    /\ PassStrCalled
    /\ \E k \in 1..Len(chains) :
          /\ Len(chains[k][3]) >= 2
          /\ chains[k][1] # chains[k][2]
          /\ EntriesFor(chains, chains[k][2], chains[k][1]) # {}

\* C9: pass_str normalizes every word by the filters in registration order,
\* then the transform, then the casing: the words recorded in the model are
\* case(transform(filter_k(... filter_1(word)))).
RECURSIVE FilterWord(_, _)
FilterWord(fs, w) == IF fs = <<>> THEN w ELSE FilterWord(Tail(fs), replace_all(Head(fs), w))

TransformWord(f, w) == IF f.some THEN CallTransform(f.val, w) ELSE w

CaseWord(c, w) ==
    CASE c = "Lower" -> to_lowercase(w) [] c = "Upper" -> to_uppercase(w) [] OTHER -> w

Expected(w) == CaseWord(pre.case, TransformWord(pre.transform, FilterWord(pre.filters, w)))

C10_WalkFollowsChains ==
    Generated =>
        LET w == Fields(last.ret.text) IN
        /\ Len(w) >= 2
        /\ <<w[1], w[2]>> \in SeedSet
        /\ \A i \in 1..(Len(w) - 2) :
              /\ \E k \in EntriesFor(chains, w[i], w[i + 1]) :
                    \E m \in 1..Len(chains[k][3]) : chains[k][3][m] = w[i + 2]
              /\ \E t \in corpus : \E j \in 1..(Len(t) - 2) :
                    <<t[j], t[j + 1], t[j + 2]>> = <<w[i], w[i + 1], w[i + 2]>>

\* a sentence that no single passed sentence holds
C10_Witness ==
    /\ Generated
    /\ Len(Fields(last.ret.text)) >= 4
    /\ Len(seeds) >= 2
    /\ \A t \in corpus : Join(t, <<" ">>) # last.ret.text

====
